---- MODULE Spec2Model ----
(***************************************************************************)
(* A model of src/wallabag.py: the Wallabag API client.  One client object *)
(* (self), a clock (datetime.utcnow), and one action per public operation: *)
(* the constructor, query, get_entries, save_entry and edit_entry.  Each   *)
(* action runs the whole call, nested token refresh included, against the  *)
(* HTTP responses the remote service gives, which are inputs of the action.*)
(*                                                                         *)
(* Python values are tagged records (PyNone, PyStr, PyInt, PyList, PyDict).*)
(* Text whose characters the code inspects (the method it lower-cases, the *)
(* path it tests for a leading slash) is a sequence of pieces, one piece   *)
(* per character for methods, and "/" always a piece of its own for paths. *)
(***************************************************************************)
EXTENDS Integers, Sequences, FiniteSets, TLC

VARIABLES
    phase,   \* "none": no client yet; "ready": constructed; "failed": __init__ raised
    self,    \* the client object's attributes
    now,     \* the clock read by datetime.datetime.utcnow()
    calls,   \* public operations dispatched on the current client
    call,    \* the operation that has just run and its arguments ("none" when idle)
    pre,     \* self, the clock and last_refresh when that operation started
    res,     \* what that operation did: HTTP log, refreshes, prints, result
    last_refresh  \* how the client's latest token refresh ended: "none", "ok", "failed"

vars == <<phase, self, now, calls, call, pre, res, last_refresh>>

----------------------------------------------------------------------------
(* Bounds of the model *)

MaxTime == 3        \* the clock runs from 0 to MaxTime
MaxOps == 2         \* operations dispatched on one client
MaxTags == 2        \* longest tags / authors list
MaxDepth == 3       \* nested refreshes before Python's recursion limit is hit

----------------------------------------------------------------------------
(* Python values *)

PyNone == [t |-> "None"]
PyStr(s) == [t |-> "str", v |-> s]
PyInt(i) == [t |-> "int", v |-> i]
PyList(q) == [t |-> "list", v |-> q]
PyDict(m) == [t |-> "dict", v |-> m]
PyBool(b) == [t |-> "bool", v |-> b]
EmptyDict == PyDict(<<>>)

\* Python truth value of None, a str, a list or a dict
truthy(x) ==
    CASE x.t = "None" -> FALSE
      [] x.t = "str" -> x.v # ""
      [] x.t = "list" -> Len(x.v) > 0
      [] x.t = "dict" -> DOMAIN x.v # {}
      [] OTHER -> TRUE

UpperCase == <<"A","B","C","D","E","F","G","H","I","J","K","L","M",
               "N","O","P","Q","R","S","T","U","V","W","X","Y","Z">>
LowerCase == <<"a","b","c","d","e","f","g","h","i","j","k","l","m",
               "n","o","p","q","r","s","t","u","v","w","x","y","z">>

lower_char(c) ==
    IF \E i \in 1..Len(UpperCase) : UpperCase[i] = c
    THEN LowerCase[CHOOSE i \in 1..Len(UpperCase) : UpperCase[i] = c]
    ELSE c

\* str.lower() of a method given as its characters
lower(s) == [i \in 1..Len(s) |-> lower_char(s[i])]

startswith_slash(p) == Len(p) > 0 /\ p[1] = "/"

RECURSIVE join(_, _)
\* sep.join(q) for a list q of strings
join(sep, q) ==
    IF Len(q) = 0 THEN ""
    ELSE IF Len(q) = 1 THEN q[1]
    ELSE q[1] \o sep \o join(sep, Tail(q))

\* int(b) of a bool
int_of_bool(b) == IF b THEN 1 ELSE 0

\* a subscript that answers None where Python raises
getitem_or_none(x, key) ==
    IF x.t = "dict" /\ key \in DOMAIN x.v
    THEN [exc |-> "", value |-> x.v[key]]
    ELSE [exc |-> "", value |-> PyNone]

\* x[key] for a string key: the exception raised ("" when none) and the value.
\* Only a dict can be subscripted by a string.
getitem(x, key) ==
    IF x.t # "dict" THEN [exc |-> "TypeError", value |-> PyNone]
    ELSE IF key \notin DOMAIN x.v THEN [exc |-> "KeyError", value |-> PyNone]
    ELSE [exc |-> "", value |-> x.v[key]]

\* x[0]: the first element of a list, the first character of a str (kept as
\* the str it is taken from), KeyError on a decoded JSON object, whose keys
\* are strings, TypeError on None, a bool or a number
getitem_first(x) ==
    CASE x.t = "list" ->
            IF Len(x.v) = 0 THEN [exc |-> "IndexError", value |-> PyNone]
            ELSE [exc |-> "", value |-> x.v[1]]
      [] x.t = "str" ->
            IF x.v = "" THEN [exc |-> "IndexError", value |-> PyNone]
            ELSE [exc |-> "", value |-> [t |-> "str", first_of |-> x.v]]
      [] x.t = "dict" -> [exc |-> "KeyError", value |-> PyNone]
      [] OTHER -> [exc |-> "TypeError", value |-> PyNone]

----------------------------------------------------------------------------
(* The remote service *)

HTTP_OK == 200
Statuses == {200, 201, 401}

TokenPath == <<"/", "oauth", "/", "v2", "/", "token">>
EntriesPath == <<"/", "api", "/", "entries.json">>
entry_path(entry_id) == <<"/", "api", "/", "entries", "/", ToString(entry_id), ".json">>

Grants == {[access_token |-> "t1", refresh_token |-> "r1"],
           [access_token |-> "t2", refresh_token |-> "r2"]}
Lifetimes == {0, 1, 2}
Delays == {0, 1}

\* a body that is not JSON: response.json() raises on it
NotJson == [t |-> "not json"]

ErrorDict == PyDict([error |-> PyStr("invalid_grant")])
EntryDict == PyDict([id |-> PyInt(1)])
list_dict(items) == PyDict([_embedded |-> PyDict([items |-> PyList(items)])])

token_dict(g, n) ==
    PyDict([access_token |-> PyStr(g.access_token),
            refresh_token |-> PyStr(g.refresh_token),
            expires_in |-> PyInt(n)])

\* answers with status 200 that _refresh_access_token cannot store in full
BrokenTokenDicts ==
    {PyDict([access_token |-> PyStr("t1")]),
     PyDict([access_token |-> PyStr("t1"), refresh_token |-> PyStr("r1")]),
     PyDict([access_token |-> PyStr("t1"), refresh_token |-> PyStr("r1"),
             expires_in |-> PyStr("3600")]),
     PyDict([access_token |-> PyNone, refresh_token |-> PyStr("r1"),
             expires_in |-> PyInt(1)])}

\* What the token endpoint may answer; delay is the time the exchange takes.
TokenResponses ==
    {[status |-> 200, json |-> token_dict(g, n), delay |-> d] :
        g \in Grants, n \in Lifetimes, d \in Delays}
    \cup {[status |-> s, json |-> ErrorDict, delay |-> 0] : s \in Statuses}
    \cup {[status |-> 201, json |-> token_dict(g, 1), delay |-> 0] : g \in Grants}
    \cup {[status |-> 200, json |-> b, delay |-> 0] : b \in BrokenTokenDicts}
    \cup {[status |-> 401, json |-> NotJson, delay |-> 0]}

OkResponse == [status |-> 200, json |-> EntryDict, delay |-> 0]

EntryResponses ==
    {[status |-> 200, json |-> EntryDict, delay |-> 0],
     [status |-> 201, json |-> EntryDict, delay |-> 0],
     [status |-> 401, json |-> ErrorDict, delay |-> 0],
     [status |-> 401, json |-> NotJson, delay |-> 0]}

ListResponses ==
    {[status |-> 200, json |-> list_dict(<<PyDict([id |-> PyInt(1)]), PyDict([id |-> PyInt(2)])>>), delay |-> 0],
     [status |-> 200, json |-> list_dict(<<>>), delay |-> 0],
     [status |-> 200, json |-> EntryDict, delay |-> 0],
     [status |-> 401, json |-> ErrorDict, delay |-> 0]}

----------------------------------------------------------------------------
(* Results of running a piece of code: the object afterwards, the clock,   *)
(* the HTTP requests sent, the token refreshes started and completed, what *)
(* was printed, the exception raised ("" when none) and the value returned.*)

done(S, t) ==
    [self |-> S, clock |-> t, log |-> <<>>, refreshes |-> 0, refreshed |-> 0,
     printed |-> <<>>, exc |-> "", value |-> PyNone]

raise(R, e) == [R EXCEPT !.exc = e, !.value = PyNone]

----------------------------------------------------------------------------
(* Wallabag.query and Wallabag._refresh_access_token *)

Host == <<"https:", "/", "/", "wallabag.example">>
Username == "user"
Password == "secret"
ClientId == "cid"
ClientSecret == "csecret"

\* The methods query dispatches on, as characters, with the place of the payload
get == <<"g", "e", "t">>
post == <<"p", "o", "s", "t">>
patch == <<"p", "a", "t", "c", "h">>
delete == <<"d", "e", "l", "e", "t", "e">>
put == <<"p", "u", "t">>

\* a refresh whose own request does not bypass the token check
refresh_skip_flag_unset == FALSE

\* the flag _refresh_access_token passes to query for its own request
refresh_skip_flag == TRUE

\* a test that forgets the auto-refresh switch
needs_refresh_always(S, t, skip) ==
    ~skip /\ t >= S.access_token_expires_at

\* the test that decides whether query refreshes the token first
needs_refresh(S, t, skip) ==
    ~skip /\ S.auto_access_token_refresh /\ t >= S.access_token_expires_at

\* an expiry that forgets the lifetime
new_expiry_now(t, expires_in) == t

\* the expiry _refresh_access_token stores: utcnow() + timedelta(0, expires_in)
new_expiry(t, expires_in) == t + expires_in

\* a query that takes every 2xx status for success
query_result_2xx(response) ==
    IF response.status < 200 \/ response.status >= 300 THEN PyNone ELSE response.json

\* what query returns for a response
query_result(response) ==
    IF response.status # HTTP_OK THEN PyNone ELSE response.json

\* where query puts the payload for a lower-cased method ("" for a method it
\* does not know, for which it raises ValueError)
placement_of(m) ==
    CASE m = get -> "params"
      [] m = post -> "data"
      [] m = patch -> "data"
      [] m = delete -> "params"
      [] m = put -> "data"
      [] OTHER -> ""

\* _refresh_access_token once its request has returned Q.value, statement by
\* statement: an exception leaves the assignments already made.  expires_in
\* is a bool or an int small enough for timedelta and the addition.
store_token(Q) ==
    LET d == Q.value
        a == getitem(d, "access_token")
        Q1 == [Q EXCEPT !.self.access_token = a.value]
        r == getitem(d, "refresh_token")
        Q2 == [Q1 EXCEPT !.self.refresh_token = r.value]
        Q3 == [Q2 EXCEPT !.self.authorization = PyStr("Bearer " \o a.value.v)]
        e == getitem(d, "expires_in")
        seconds == IF e.value.t = "bool" THEN int_of_bool(e.value.v) ELSE e.value.v
    IN  IF Q.exc # "" THEN Q
        ELSE IF a.exc # "" THEN raise(Q, a.exc)
        ELSE IF r.exc # "" THEN raise(Q1, r.exc)
        ELSE IF a.value.t # "str" THEN raise(Q2, "TypeError")
        ELSE IF e.exc # "" THEN raise(Q3, e.exc)
        ELSE IF e.value.t \notin {"int", "bool"} THEN raise(Q3, "TypeError")
        ELSE [Q3 EXCEPT
                !.self.access_token_expires_at = new_expiry(Q.clock, seconds),
                !.refreshed = Q.refreshed + 1,
                !.value = PyNone]

RECURSIVE query(_, _, _, _, _, _, _, _)
RECURSIVE refresh_access_token(_, _, _, _)

\* net.token is the token endpoint's answer, net.primary the answer to the
\* request of this call; depth counts the refreshes in progress.
query(S, t, path, method, payload, skip_access_token_refresh, net, depth) ==
    IF depth > MaxDepth THEN raise(done(S, t), "RecursionError")
    ELSE
    LET m == lower(method)
        p == IF ~startswith_slash(path) THEN <<"/">> \o path ELSE path
        url == Host \o p
        pl == IF truthy(payload) THEN payload ELSE EmptyDict
        R == IF needs_refresh(S, t, skip_access_token_refresh)
             THEN refresh_access_token(S, t, net, depth + 1)
             ELSE done(S, t)
        placement == placement_of(m)
        req == [url |-> url, method |-> m, placement |-> placement, payload |-> pl,
                authorization |-> R.self.authorization,
                skip_access_token_refresh |-> skip_access_token_refresh]
        response == net.primary
        sent == [R EXCEPT !.clock = R.clock + response.delay,
                          !.log = Append(R.log, req)]
    IN  IF R.exc # "" THEN R
        ELSE IF placement = "" THEN raise(R, "ValueError")
        ELSE IF response.json = NotJson THEN raise(sent, "JSONDecodeError")
        ELSE [sent EXCEPT
                !.printed = IF response.status # HTTP_OK
                            THEN Append(R.printed, response.json) ELSE R.printed,
                !.value = query_result(response)]

refresh_access_token(S, t, net, depth) ==
    LET payload == PyDict([grant_type |-> PyStr("password"),
                           username |-> PyStr(Username),
                           password |-> PyStr(Password),
                           client_id |-> PyStr(ClientId),
                           client_secret |-> PyStr(ClientSecret)])
        Q == query(S, t, TokenPath, post, payload, refresh_skip_flag,
                   [token |-> net.token, primary |-> net.token], depth)
    IN  store_token([Q EXCEPT !.refreshes = Q.refreshes + 1])

\* Wallabag.__init__
init(t, handle_access_token_refreshes, net) ==
    LET S0 == [access_token |-> PyNone,
               refresh_token |-> PyNone,
               access_token_expires_at |-> t,
               authorization |-> PyNone,
               auto_access_token_refresh |-> handle_access_token_refreshes]
    IN  IF S0.auto_access_token_refresh
        THEN refresh_access_token(S0, t, net, 0)
        ELSE done(S0, t)

\* the text json.dumps(x, indent=2) gives, kept as the value it renders
json_dumps(x) == [t |-> "json", v |-> x]

\* Wallabag.get_entries
get_entries(S, t, net) ==
    LET payload == PyDict([page |-> PyInt(1), perPage |-> PyInt(1), order |-> PyStr("asc")])
        Q == query(S, t, EntriesPath, get, payload, FALSE, net, 0)
        embedded == getitem(Q.value, "_embedded")
        items == getitem(embedded.value, "items")
        first == getitem_first(items.value)
    IN  IF Q.exc # "" THEN Q
        ELSE IF embedded.exc # "" THEN raise(Q, embedded.exc)
        ELSE IF items.exc # "" THEN raise(Q, items.exc)
        ELSE IF first.exc # "" THEN raise(Q, first.exc)
        ELSE [Q EXCEPT !.printed = Append(Q.printed, json_dumps(first.value)),
                       !.value = PyNone]

----------------------------------------------------------------------------
(* Entry payloads: Wallabag._build_entry_payload, save_entry, edit_entry *)

\* a flag serialised through bool(): None becomes 0
flag_field_falsy(flag) ==
    PyInt(IF flag # PyNone THEN int_of_bool(flag.v) ELSE 0)

\* a bool flag of the payload: int(flag) if flag is not None else None
flag_field(flag) == IF flag # PyNone THEN PyInt(int_of_bool(flag.v)) ELSE PyNone

\* tags and authors: joined with commas when truthy, otherwise left as given
joined_field(x) == IF truthy(x) THEN PyStr(join(",", x.v)) ELSE x

\* the payload dict of the keyword arguments a; published_at is None or an int
entry_fields(a) ==
    [title |-> a.title,
     tags |-> joined_field(a.tags),
     archive |-> flag_field(a.archive),
     starred |-> flag_field(a.starred),
     content |-> a.content,
     language |-> a.language,
     preview_picture |-> a.preview_picture,
     published_at |-> a.published_at,
     authors |-> joined_field(a.authors),
     public |-> flag_field(a.public),
     origin_url |-> a.origin_url]

\* a builder that does not validate
build_entry_payload_unchecked(a) ==
    [exc |-> "", value |-> PyDict(entry_fields(a))]

\* The result is the exception raised, or the payload returned.
build_entry_payload(a) ==
    IF a.content # PyNone /\ a.title = PyNone
    THEN [exc |-> "ValueError", value |-> PyNone]
    ELSE [exc |-> "", value |-> PyDict(entry_fields(a))]

save_entry(S, t, url, a, net) ==
    LET B == build_entry_payload(a)
    IN  IF B.exc # "" THEN raise(done(S, t), B.exc)
        ELSE LET payload == PyDict(B.value.v @@ [url |-> PyStr(url)])
             IN  query(S, t, EntriesPath, post, payload, FALSE, net, 0)

edit_entry(S, t, entry_id, a, net) ==
    LET B == build_entry_payload(a)
    IN  IF B.exc # "" THEN raise(done(S, t), B.exc)
        ELSE query(S, t, entry_path(entry_id), patch, B.value, FALSE, net, 0)

----------------------------------------------------------------------------
(* Inputs *)

Methods ==
    {<<"G", "E", "T">>, <<"g", "e", "t">>, <<"P", "o", "s", "t">>,
     <<"P", "A", "T", "C", "H">>, <<"d", "e", "l", "e", "t", "e">>,
     <<"P", "u", "T">>, <<"H", "E", "A", "D">>, <<>>}
QueryPaths == {<<"api", "/", "entries.json">>, <<"/", "api", "/", "entries.json">>}
QueryPayloads == {PyNone, PyDict([page |-> PyInt(1)])}
Urls == {"http://x"}
EntryIds == {42}

RECURSIVE lists_upto(_, _)
\* the lists over S of length at most n
lists_upto(S, n) ==
    IF n = 0 THEN {<<>>}
    ELSE LET shorter == lists_upto(S, n - 1)
         IN  shorter \cup {Append(q, x) : q \in shorter, x \in S}

Titles == {PyNone, PyStr("T")}
Contents == {PyNone, PyStr("body")}
Flags == {PyNone, PyBool(TRUE), PyBool(FALSE)}
TagLists == {PyNone} \cup {PyList(q) : q \in lists_upto({"a", "b"}, MaxTags)}
AuthorLists == {PyNone} \cup {PyList(q) : q \in lists_upto({"x"}, MaxTags)}

entry_args(title, tags, archive, starred, content, authors, public) ==
    [title |-> title, tags |-> tags, archive |-> archive, starred |-> starred,
     content |-> content, language |-> PyNone, preview_picture |-> PyNone,
     published_at |-> PyNone, authors |-> authors, public |-> public,
     origin_url |-> PyNone]

\* every combination of the arguments the payload builder transforms
EntryArgs ==
    {entry_args(ti, tg, ar, st, co, au, pu) :
        ti \in Titles, tg \in TagLists, ar \in Flags, st \in Flags,
        co \in Contents, au \in AuthorLists, pu \in Flags}

\* the calls made on a client whose token state varies
ClientEntryArgs ==
    {entry_args(ti, tg, ar, PyNone, co, PyNone, PyNone) :
        ti \in Titles, tg \in {PyNone, PyList(<<"a", "b">>)},
        ar \in {PyNone, PyBool(TRUE)}, co \in Contents}

----------------------------------------------------------------------------
(* The state machine *)

NoResult ==
    [log |-> <<>>, refreshes |-> 0, refreshed |-> 0, printed |-> <<>>,
     exc |-> "", value |-> PyNone]
NoCall == [name |-> "none"]
NoPre == [self |-> PyNone, now |-> 0, last_refresh |-> "none"]

Init ==
    /\ phase = "none"
    /\ self = PyNone
    /\ now = 0
    /\ calls = 0
    /\ call = NoCall
    /\ pre = NoPre
    /\ res = NoResult
    /\ last_refresh = "none"

\* the caller is between two operations
Idle == call = NoCall

\* the token endpoint answers only a call that asks it: the answers to draw
\* from for an operation that starts in the current state
TokenAnswers(skip) ==
    IF needs_refresh(self, now, skip) THEN TokenResponses ELSE {OkResponse}

\* how the latest refresh ended, after an operation with outcome R
refresh_outcome(R, before) ==
    IF R.refreshes = 0 THEN before
    ELSE IF R.refreshed = R.refreshes THEN "ok" ELSE "failed"

\* the outcome R of an operation c becomes the state
Finish(c, R, P) ==
    /\ R.clock <= MaxTime
    /\ self' = R.self
    /\ now' = R.clock
    /\ call' = c
    /\ pre' = P
    /\ res' = [log |-> R.log, refreshes |-> R.refreshes, refreshed |-> R.refreshed,
               printed |-> R.printed, exc |-> R.exc, value |-> R.value]
    /\ last_refresh' = refresh_outcome(R, P.last_refresh)

\* time passes between operations
Tick ==
    /\ Idle
    /\ now < MaxTime
    /\ now' = now + 1
    /\ UNCHANGED <<phase, self, calls, call, pre, res, last_refresh>>

\* the caller has taken the result of the operation and goes on
Return ==
    /\ ~Idle
    /\ call' = NoCall
    /\ pre' = NoPre
    /\ res' = NoResult
    /\ UNCHANGED <<phase, self, now, calls, last_refresh>>

\* client = Wallabag(host, username, password, client_id, client_secret, auto)
Construct ==
    /\ Idle
    /\ phase # "ready"
    /\ \E auto \in BOOLEAN :
       \E tr \in (IF auto THEN TokenResponses ELSE {OkResponse}) :
        LET R == init(now, auto, [token |-> tr, primary |-> tr])
        IN  /\ Finish([name |-> "__init__", handle_access_token_refreshes |-> auto,
                       token_response |-> tr], R,
                      [self |-> init(now, FALSE, [token |-> tr, primary |-> tr]).self,
                       now |-> now, last_refresh |-> "none"])
            /\ phase' = IF R.exc = "" THEN "ready" ELSE "failed"
            /\ calls' = 0

\* a public operation on the constructed client
Dispatch(c, R) ==
    /\ Finish(c, R, [self |-> self, now |-> now, last_refresh |-> last_refresh])
    /\ calls' = calls + 1
    /\ UNCHANGED phase

\* the client can take another call
Ready == Idle /\ phase = "ready" /\ calls < MaxOps

Query ==
    /\ Ready
    /\ \E path \in QueryPaths, method \in Methods, payload \in QueryPayloads,
          skip \in BOOLEAN, pr \in EntryResponses :
       \E tr \in TokenAnswers(skip) :
        Dispatch([name |-> "query", path |-> path, method |-> method,
                  payload |-> payload, skip_access_token_refresh |-> skip,
                  response |-> pr, token_response |-> tr],
                 query(self, now, path, method, payload, skip,
                       [token |-> tr, primary |-> pr], 0))

GetEntries ==
    /\ Ready
    /\ \E tr \in TokenAnswers(FALSE), pr \in ListResponses :
        Dispatch([name |-> "get_entries", response |-> pr, token_response |-> tr],
                 get_entries(self, now, [token |-> tr, primary |-> pr]))

SaveEntry ==
    /\ Ready
    /\ \E url \in Urls, a \in ClientEntryArgs, tr \in TokenAnswers(FALSE), pr \in EntryResponses :
        Dispatch([name |-> "save_entry", url |-> url, args |-> a, response |-> pr, token_response |-> tr],
                 save_entry(self, now, url, a, [token |-> tr, primary |-> pr]))

EditEntry ==
    /\ Ready
    /\ \E id \in EntryIds, a \in ClientEntryArgs, tr \in TokenAnswers(FALSE), pr \in EntryResponses :
        Dispatch([name |-> "edit_entry", entry_id |-> id, args |-> a, response |-> pr, token_response |-> tr],
                 edit_entry(self, now, id, a, [token |-> tr, primary |-> pr]))

Next == Construct \/ Tick \/ Return \/ Query \/ GetEntries \/ SaveEntry \/ EditEntry

Spec == Init /\ [][Next]_vars

(* The payload builder on all its inputs: one save_entry or edit_entry call on *)
(* a freshly constructed client, answered with 200.                            *)

InitPayload ==
    /\ phase = "ready"
    /\ self = init(0, FALSE, [token |-> OkResponse, primary |-> OkResponse]).self
    /\ now = 0
    /\ calls = 0
    /\ call = NoCall
    /\ pre = NoPre
    /\ res = NoResult
    /\ last_refresh = "none"

SaveAnyEntry ==
    /\ Ready /\ calls = 0
    /\ \E url \in Urls, a \in EntryArgs :
        Dispatch([name |-> "save_entry", url |-> url, args |-> a, response |-> OkResponse],
                 save_entry(self, now, url, a, [token |-> OkResponse, primary |-> OkResponse]))

EditAnyEntry ==
    /\ Ready /\ calls = 0
    /\ \E id \in EntryIds, a \in EntryArgs :
        Dispatch([name |-> "edit_entry", entry_id |-> id, args |-> a, response |-> OkResponse],
                 edit_entry(self, now, id, a, [token |-> OkResponse, primary |-> OkResponse]))

NextPayload == SaveAnyEntry \/ EditAnyEntry

SpecPayload == InitPayload /\ [][NextPayload]_vars

----------------------------------------------------------------------------
(* Vocabulary of the properties *)

IsTokenRequest(r) == r.url = Host \o TokenPath
TokenRequests == {i \in 1..Len(res.log) : IsTokenRequest(res.log[i])}
PrimaryRequests == {i \in 1..Len(res.log) : ~IsTokenRequest(res.log[i])}

\* the four parts of the token state
TokenState(S) ==
    <<S.access_token, S.refresh_token, S.access_token_expires_at, S.authorization>>

IsDispatch == call.name \in {"query", "get_entries", "save_entry", "edit_entry"}
IsEntryCall == call.name \in {"save_entry", "edit_entry"}
Bypassed == call.name = "query" /\ call.skip_access_token_refresh
\* the entry call was rejected by the payload validation
Rejected ==
    IsEntryCall /\ call.args.content # PyNone /\ call.args.title = PyNone
\* a dispatched call that reached the token check of query without the bypass flag
Checked == IsDispatch /\ ~Bypassed /\ ~Rejected
\* the token had expired when the call started
ExpiredAtStart == pre.now >= pre.self.access_token_expires_at
\* the payload of the last request sent
OutgoingPayload == res.log[Len(res.log)].payload.v

\* the token endpoint's answer to the refresh of this call
Granted == call.token_response.json.v

----------------------------------------------------------------------------
(* C1: on a client constructed with auto-refresh, the first dispatched     *)
(* operation starts at most one token refresh, and exactly one when the    *)
(* token it holds from construction is no longer valid; that refresh has   *)
(* completed before the primary request goes out, which then carries the   *)
(* new token; and in every operation, the constructor included, the        *)
(* refresh's own request carries the bypass flag and starts no further     *)
(* refresh.                                                                *)
C1_FirstOperationRefreshesOnce ==
    /\ (call.name # "none") =>
          /\ res.refreshes <= 1
          /\ Cardinality(TokenRequests) = res.refreshes
          /\ \A i \in TokenRequests : res.log[i].skip_access_token_refresh
    /\ (Checked /\ calls = 1 /\ self.auto_access_token_refresh) =>
          /\ ExpiredAtStart => res.refreshes = 1
          /\ \A i \in TokenRequests : \A j \in PrimaryRequests : i < j
          /\ (ExpiredAtStart /\ PrimaryRequests # {}) =>
                /\ res.refreshed = 1
                /\ \A j \in PrimaryRequests :
                     res.log[j].authorization =
                        PyStr("Bearer " \o Granted.access_token.v)

C1_Witness ==
    /\ Checked /\ calls = 1 /\ self.auto_access_token_refresh
    /\ ExpiredAtStart
    /\ res.refreshes = 1
    /\ Len(res.log) = 2
    /\ pre.self.access_token # self.access_token

(* C2: a token response with status 200 and expires_in = N received at     *)
(* time t makes the stored expiry t + N; with auto-refresh, a non-bypassed *)
(* call that starts before the stored expiry starts no refresh, and one    *)
(* that starts at or after it starts one, before its primary request.      *)
C2_ExpiryDecidesRefresh ==
    /\ (call.name # "none" /\ res.refreshed = 1) =>
          self.access_token_expires_at =
             pre.now + call.token_response.delay + Granted.expires_in.v
    /\ (Checked /\ self.auto_access_token_refresh) =>
          /\ pre.now < pre.self.access_token_expires_at => res.refreshes = 0
          /\ pre.now >= pre.self.access_token_expires_at =>
                /\ res.refreshes = 1
                /\ res.log # <<>> /\ IsTokenRequest(res.log[1])
                /\ \A j \in PrimaryRequests : j > 1

C2_Witness ==
    /\ Checked /\ self.auto_access_token_refresh
    /\ pre.now >= pre.self.access_token_expires_at
    /\ res.refreshed = 1
    /\ call.token_response.delay = 1
    /\ Granted.expires_in.v = 1
    /\ self.access_token_expires_at = pre.now + 2
    /\ Len(res.log) = 2

\* a call that starts before the stored expiry of a live token
C2_WitnessFresh ==
    /\ Checked /\ self.auto_access_token_refresh
    /\ pre.now < pre.self.access_token_expires_at
    /\ res.refreshes = 0 /\ Len(res.log) = 1

(* C3: save_entry and edit_entry with content and without title raise      *)
(* ValueError before any HTTP request, token refresh included, and leave   *)
(* the token state and the session header as they were.                    *)
C3_InvalidEntryFailsFast ==
    Rejected =>
        /\ res.exc = "ValueError"
        /\ res.log = <<>>
        /\ res.refreshes = 0
        /\ TokenState(self) = TokenState(pre.self)

C3_Witness ==
    /\ Rejected
    /\ call.name = "edit_entry"
    /\ self.auto_access_token_refresh /\ ExpiredAtStart
    /\ res.exc = "ValueError"

(* C4: query returns the decoded body only for status 200; for every other *)
(* status, 201 included, it returns None and not the body.                 *)
C4_OnlyStatus200Returns ==
    (call.name = "query" /\ PrimaryRequests # {}) =>
        /\ call.response.json # NotJson => res.exc = ""
        /\ (call.response.status = 200 /\ call.response.json # NotJson) =>
              res.value = call.response.json
        /\ call.response.status # 200 =>
              res.value = PyNone /\ res.value # call.response.json

C4_Witness ==
    /\ call.name = "query" /\ PrimaryRequests # {}
    /\ call.response.status = 201
    /\ res.exc = ""
    /\ res.value = PyNone

(* C5: query with a method that is none of get, post, patch, delete, put   *)
(* (in any letter case) raises ValueError before any HTTP request, token   *)
(* request included, with the token state unchanged; the five methods      *)
(* never raise it.                                                         *)
C5_UnknownMethodRaisesFirst ==
    call.name = "query" =>
        IF lower(call.method) \in {get, post, patch, delete, put}
        THEN res.exc # "ValueError"
        ELSE /\ res.exc = "ValueError"
             /\ res.log = <<>>
             /\ TokenState(self) = TokenState(pre.self)

(* C6: when the constructor fetched no token, the first request dispatched *)
(* through the client fetches one, so the first primary request is sent    *)
(* with a token acquired.                                                  *)
C6_FirstRequestFetchesToken ==
    (Checked /\ calls = 1 /\ pre.last_refresh = "none") =>
        /\ res.refreshes = 1
        /\ \A j \in PrimaryRequests :
              /\ res.refreshed = 1
              /\ self.access_token # PyNone
              /\ res.log[j].authorization # PyNone

(* C7: only a token refresh changes the access token, the refresh token,   *)
(* the expiry and the session header: an operation that starts no          *)
(* refresh leaves them as they were, an operation with auto-refresh off,   *)
(* the bypass flag set or the token not expired starts none, a constructor *)
(* without auto-refresh leaves the initial values, and the expiry is set   *)
(* in every state of a client.                                             *)
C7_OnlyRefreshChangesToken ==
    /\ phase # "none" => self.access_token_expires_at \in Int
    /\ (call.name # "none" /\ res.refreshes = 0) =>
          TokenState(self) = TokenState(pre.self)
    /\ (IsDispatch /\ (\/ ~pre.self.auto_access_token_refresh
                       \/ Bypassed
                       \/ pre.now < pre.self.access_token_expires_at)) =>
          /\ res.refreshes = 0
          /\ TokenState(self) = TokenState(pre.self)
    /\ (call.name = "__init__" /\ ~call.handle_access_token_refreshes) =>
          TokenState(self) = <<PyNone, PyNone, pre.now, PyNone>>

C7_Witness ==
    /\ IsDispatch /\ ~Bypassed
    /\ ~self.auto_access_token_refresh
    /\ ExpiredAtStart
    /\ Len(res.log) = 1
    /\ TokenState(self) = TokenState(pre.self)

\* an operation that does refresh, and changes the token state
C7_WitnessRefreshed ==
    /\ IsDispatch /\ res.refreshed = 1
    /\ TokenState(self) # TokenState(pre.self)

(* C8: in the payload save_entry and edit_entry send, each of archive,     *)
(* starred and public is 1 for True, 0 for False and None for None.        *)
C8_FlagsSerialised ==
    (IsEntryCall /\ res.log # <<>>) =>
        \A f \in {"archive", "starred", "public"} :
            /\ call.args[f] = PyBool(TRUE) => OutgoingPayload[f] = PyInt(1)
            /\ call.args[f] = PyBool(FALSE) => OutgoingPayload[f] = PyInt(0)
            /\ call.args[f] = PyNone =>
                  OutgoingPayload[f] = PyNone /\ OutgoingPayload[f] # PyInt(0)

C8_Witness ==
    /\ call.name = "save_entry" /\ res.log # <<>>
    /\ call.args.archive = PyBool(TRUE) /\ OutgoingPayload.archive = PyInt(1)
    /\ call.args.starred = PyBool(FALSE) /\ OutgoingPayload.starred = PyInt(0)
    /\ call.args.public = PyNone /\ OutgoingPayload.public = PyNone

(* C9: in the payload save_entry and edit_entry send, tags and authors     *)
(* given as a list of strings of any length, the empty list included, are  *)
(* the single string of the elements joined with commas, never a list.     *)
C9_ListsJoined ==
    (IsEntryCall /\ res.log # <<>>) =>
        \A f \in {"tags", "authors"} :
            call.args[f].t = "list" =>
                /\ OutgoingPayload[f].t = "str"
                /\ OutgoingPayload[f] = PyStr(join(",", call.args[f].v))

\* the same for the lists that have an element, which the code does join
C9_NonEmptyListsJoined ==
    (IsEntryCall /\ res.log # <<>>) =>
        \A f \in {"tags", "authors"} :
            (call.args[f].t = "list" /\ call.args[f].v # <<>>) =>
                OutgoingPayload[f] = PyStr(join(",", call.args[f].v))

C9_WitnessJoined ==
    /\ call.name = "save_entry" /\ res.log # <<>>
    /\ call.args.tags = PyList(<<"a", "b">>)
    /\ OutgoingPayload.tags = PyStr("a,b")

(* C10: when the token endpoint answers a refresh with a status other than *)
(* 200, the operation (constructor or dispatched call) raises, its primary *)
(* request is not sent, the token state keeps its values, and the next     *)
(* non-bypassed call starts a refresh again.                               *)
C10_FailedRefreshRaises ==
    /\ (call.name # "none" /\ res.refreshes >= 1 /\ call.token_response.status # 200) =>
          /\ res.exc # ""
          /\ call.token_response.json # NotJson => res.exc = "TypeError"
          /\ res.value = PyNone
          /\ PrimaryRequests = {}
          /\ TokenState(self) = TokenState(pre.self)
          /\ last_refresh = "failed"
          /\ call.name = "__init__" => phase = "failed"
    /\ (Checked /\ pre.last_refresh = "failed") =>
          /\ res.refreshes = 1
          /\ res.log # <<>> /\ IsTokenRequest(res.log[1])

C10_Witness ==
    /\ Checked /\ pre.last_refresh = "failed"
    /\ res.refreshes = 1
    /\ call.token_response.status = 401
    /\ res.exc = "TypeError"
    /\ self.access_token # PyNone

====
